---- MODULE Spec2Model ----
(***************************************************************************)
(* Inference orchestration and pipeline state of interview-coder-free:     *)
(* the model fallback gateway (ProcessingHelper.callAIWithFallback), the   *)
(* capture queues (ScreenshotHelper), the application state of main.ts and *)
(* the shortcut handlers that drive them.                                  *)
(*                                                                         *)
(* Strings the code inspects with includes() are sequences of tokens: the  *)
(* empty string is << >>, and s.includes(t) is "t is one of the tokens".   *)
(***************************************************************************)
EXTENDS Integers, Sequences, FiniteSets, TLC

\* ------------------------------------------------------------------ bounds
\* process actions that start a flow, over one run
MaxFlows == 2
\* screenshots taken over one run
MaxImages == 3

\* ------------------------------------------------------------ config.ts
GEMINI_3_PRO_PREVIEW == "gemini-3-pro-preview"
GEMINI_2_5_PRO == "gemini-2.5-pro"
GEMINI_2_5_FLASH == "gemini-2.5-flash"
GEMINI_2_0_FLASH == "gemini-2.0-flash"

DEFAULT_MODEL == GEMINI_2_5_FLASH

MODEL_FALLBACK_ORDER ==
  << GEMINI_3_PRO_PREVIEW, GEMINI_2_5_PRO, GEMINI_2_5_FLASH, GEMINI_2_0_FLASH >>

\* Array.prototype.indexOf: the first position (from 0) of x, or -1
indexOf(arr, x) ==
  IF \E k \in 1..Len(arr) : arr[k] = x
  THEN (CHOOSE k \in 1..Len(arr) : arr[k] = x /\ \A j \in 1..(k - 1) : arr[j] # x) - 1
  ELSE -1

slice_FromNext(arr, start) == SubSeq(arr, start + 2, Len(arr))

\* Array.prototype.slice(start) for start >= 0
slice(arr, start) == SubSeq(arr, start + 1, Len(arr))

getFallbackChain(startModel) ==
  LET startIndex == indexOf(MODEL_FALLBACK_ORDER, startModel)
  IN  IF startIndex = -1 THEN MODEL_FALLBACK_ORDER
      ELSE slice(MODEL_FALLBACK_ORDER, startIndex)

\* String.prototype.includes on a string of tokens
includes(s, tok) == \E k \in DOMAIN s : s[k] = tok

RateTokens == {"429", "rate limit", "quota", "RESOURCE_EXHAUSTED"}
NetTokens ==
  {"SSL", "ECONNRESET", "ETIMEDOUT", "ENOTFOUND", "handshake failed", "net_error"}

\* an error value: undefined (isNil) or an object with a name and a message
Nil == [isNil |-> TRUE, name |-> "", message |-> << >>]
JsError(msg) == [isNil |-> FALSE, name |-> "Error", message |-> msg]
ApiError(msg) == [isNil |-> FALSE, name |-> "ApiError", message |-> msg]

isRateLimitError(error) ==
  IF error.isNil THEN FALSE
  ELSE \E t \in RateTokens : includes(error.message, t)

isNetworkError(error) ==
  IF error.isNil THEN FALSE
  ELSE \E t \in NetTokens : includes(error.message, t)

getErrorMessage(error) ==
  IF isRateLimitError(error)
  THEN << "Rate limit reached. Trying with a different model..." >>
  ELSE IF isNetworkError(error)
  THEN << "Network error. Please check your connection." >>
  ELSE IF ~error.isNil /\ error.message # << >> THEN error.message
  ELSE << "An unexpected error occurred." >>

\* ------------------------------------------------- what the provider can do
\* response.text of a settled generateContent: a string, or undefined
Texts == { << "json-solution" >>, << "json-other-shape" >>, << "not-json" >>, << >> }

Response(hasText, text) ==
  [ok |-> TRUE, hasText |-> hasText, text |-> text, error |-> Nil]
Rejection(error) ==
  [ok |-> FALSE, hasText |-> FALSE, text |-> << >>, error |-> error]

ProviderErrors ==
  { ApiError(<< "429" >>), ApiError(<< "ECONNRESET" >>),
    ApiError(<< "429", "ECONNRESET" >>), ApiError(<< "boom" >>), ApiError(<< >>),
    ApiError(<< "API Key out of credits" >>) }

Outcomes ==
  { Response(TRUE, t) : t \in Texts } \cup { Response(FALSE, << >>) }
    \cup { Rejection(e) : e \in ProviderErrors }

\* ------------------------------------- ProcessingHelper.callAIWithFallback
\* One call of callAIWithFallback between its suspension points. st is where
\* the call is suspended ("await": the first generateContent of models[i];
\* "rateDelay"/"netDelay": the setTimeout after a failure; "retryAwait": the
\* second generateContent of models[i]) or how it ended ("ok", "fail").
\* attempts, outcomes and delays are a history of the call, kept when trace
\* is set: the models generateContent was called with, what each call
\* settled with, and the number of setTimeout delays awaited.
NoCall ==
  [chain |-> << >>, i |-> 0, st |-> "idle", lastError |-> Nil,
   result |-> << >>, error |-> Nil, successfulModel |-> "", modelUsed |-> 0,
   trace |-> FALSE, attempts |-> << >>, outcomes |-> << >>, delays |-> 0]

Ended(c) == c.st \in {"ok", "fail"}
Awaiting(c) == c.st \in {"await", "retryAwait"}
Delaying(c) == c.st \in {"rateDelay", "netDelay"}

\* genAI.models.generateContent({model: modelName, ...}) is issued
generateContent(c, st) ==
  [c EXCEPT !.st = st,
            !.attempts = IF c.trace THEN Append(@, c.chain[c.i]) ELSE @]

\* await new Promise(resolve => setTimeout(resolve, BASE_DELAY_MS)) begins
setTimeout(c, st) ==
  [c EXCEPT !.st = st, !.delays = IF c.trace THEN @ + 1 ELSE @]

throw(c, error) == [c EXCEPT !.st = "fail", !.error = error]

\* the head of  for (const modelName of models)  at models[c.i]
forLoop_NoAbortCheck(c, aborted) ==
  IF c.i > Len(c.chain) THEN throw(c, JsError(getErrorMessage(c.lastError)))
  ELSE generateContent(c, "await")

forLoop(c, aborted) ==
  IF c.i > Len(c.chain) THEN throw(c, JsError(getErrorMessage(c.lastError)))
  ELSE IF aborted THEN throw(c, JsError(<< "CanceledError" >>))
  ELSE generateContent(c, "await")

continue(c, aborted) == forLoop([c EXCEPT !.i = @ + 1], aborted)

\* which branch of the catch block takes the error of a first attempt
catchBranch_RateRetries(error) ==
  IF isRateLimitError(error) \/ isNetworkError(error) THEN "network" ELSE "other"

catchBranch_NoRetry(error) ==
  IF isRateLimitError(error) THEN "rateLimit" ELSE "other"

catchBranch(error) ==
  IF isRateLimitError(error) THEN "rateLimit"
  ELSE IF isNetworkError(error) THEN "network"
  ELSE "other"

\* a generateContent resolved: text, model bookkeeping, model-used, return
onSuccess_NoModelUsed(c, out) ==
  [c EXCEPT !.st = "ok",
            !.result = IF out.hasText THEN out.text ELSE << >>,
            !.successfulModel = c.chain[c.i]]

onSuccess(c, out) ==
  [c EXCEPT !.st = "ok",
            !.result = IF out.hasText THEN out.text ELSE << >>,
            !.successfulModel = c.chain[c.i],
            !.modelUsed = @ + 1]

\* catch (retryError): lastError = retryError; continue
onRetryError_KeepsFirst(c, retryError, aborted) == continue(c, aborted)

onRetryError(c, retryError, aborted) ==
  continue([c EXCEPT !.lastError = retryError], aborted)

\* catch (error) of the first attempt at models[c.i]
onError(c, error, aborted) ==
  LET c1 == [c EXCEPT !.lastError = error]
      branch == catchBranch(error)
  IN  IF branch = "rateLimit" THEN setTimeout(c1, "rateDelay")
      ELSE IF branch = "network" THEN setTimeout(c1, "netDelay")
      ELSE continue(c1, aborted)

\* the awaited generateContent settles with out
onSettled(c, out, aborted) ==
  LET c1 == [c EXCEPT !.outcomes = IF c.trace THEN Append(@, out) ELSE @]
  IN  IF out.ok THEN onSuccess(c1, out)
      ELSE IF c.st = "retryAwait" THEN onRetryError(c1, out.error, aborted)
      ELSE onError(c1, out.error, aborted)

\* the awaited setTimeout fires
onTimeout(c, aborted) ==
  IF c.st = "rateDelay" THEN continue(c, aborted)
  ELSE generateContent(c, "retryAwait")

\* store.get("GEMINI_MODEL") || DEFAULT_MODEL ; "" is "not set"
preferredModel(stored) == IF stored = "" THEN DEFAULT_MODEL ELSE stored

callAIWithFallback_NoKeyCheck(key, stored, aborted, trace) ==
  forLoop([NoCall EXCEPT !.trace = trace,
                         !.chain = getFallbackChain(preferredModel(stored)),
                         !.i = 1], aborted)

callAIWithFallback(key, stored, aborted, trace) ==
  LET c0 == [NoCall EXCEPT !.trace = trace]
  IN  IF ~key
      THEN throw(c0, JsError(<< "Please set your API Key in Settings." >>))
      ELSE forLoop([c0 EXCEPT !.chain = getFallbackChain(preferredModel(stored)),
                              !.i = 1], aborted)

\* ------------------------------------------------------------ values
\* state.problemInfo of main.ts: null, or {problem_statement}. The statement
\* extracted from screenshots is named by the screenshots it was read from.
\* solution is what problemInfo.solution reads as.
\* a property no code has assigned reads as undefined
undefined == [defined |-> FALSE]

NoProblemInfo ==
  [isNull |-> TRUE, problem_statement |-> << >>, solution |-> undefined]

ProblemInfo_Null(shots) == NoProblemInfo

ProblemInfo(shots) ==
  [isNull |-> FALSE, problem_statement |-> shots, solution |-> undefined]

\* an event sent to the renderer with webContents.send(name, arg)
Ev(name, arg) == [name |-> name, arg |-> arg]

\* PROCESSING_EVENTS of main.ts, and the bare channel names the code uses
NO_SCREENSHOTS == "processing-no-screenshots"
OUT_OF_CREDITS == "out-of-credits"
INITIAL_START == "initial-start"
PROBLEM_EXTRACTED == "problem-extracted"
SOLUTION_SUCCESS == "solution-success"
INITIAL_SOLUTION_ERROR == "solution-error"
DEBUG_START == "debug-start"
DEBUG_SUCCESS == "debug-success"
DEBUG_ERROR == "debug-error"
RESET_VIEW == "reset-view"
RESET == "reset"
MODEL_USED == "model-used"
SCREENSHOT_TAKEN == "screenshot-taken"

\* One call of processScreenshots that went past its empty-queue return: an
\* async function suspended at pc. kind is the branch taken ("solve": view
\* was "queue"; "debug": otherwise); shots the screenshot paths it read from
\* the queues; aborted the aborted flag of the AbortController it created;
\* info the problemInfo its helper read; call its callAIWithFallback call and
\* stage the helper that made it; ev the names of the events it has sent
\* after its first await, in order.
NoFlow ==
  [kind |-> "none", pc |-> "idle", stage |-> "", shots |-> << >>,
   aborted |-> FALSE, info |-> NoProblemInfo, call |-> NoCall, ev |-> << >>]

InFlight(fl) == fl.pc \notin {"idle", "done"}

\* One call of VoiceHelper.processAudioData: an async function suspended at pc
\* ("lang": getLanguage(); "transcribe", "answer": the generateContent of
\* models[i] in the first and in the second loop; "tDelay", "aDelay": the
\* setTimeout after a failure), or returned ("done") with success and error.
\* transcription is the local of that name; ev the names of the events sent.
\* attempts and outcomes are a history of the first loop: the models
\* generateContent was called with and what each call settled with. turns
\* counts the calls made so far.
NoVoice ==
  [pc |-> "idle", chain |-> << >>, i |-> 0, transcription |-> << >>,
   success |-> FALSE, error |-> << >>, ev |-> << >>,
   attempts |-> << >>, outcomes |-> << >>, turns |-> 0]

\* One call of deleteScreenshot(path): suspended at await unlink ("unlink") or
\* returned ("done") with its result; n counts the calls made so far.
NoDeletion ==
  [pc |-> "idle", path |-> 0, success |-> FALSE, error |-> << >>, n |-> 0]

\* --------------------------------------------------------------- state
VARIABLES
  apiKey,        \* store.get("GEMINI_API_KEY") is set
  userModel,     \* store.get("GEMINI_MODEL"), "" when not set
  lastUsedModel, \* ProcessingHelper.ts lastUsedModel
  gw,            \* one callAIWithFallback call, with its history
  gwSignal,      \* signal.aborted of the AbortSignal given to that call
  view,          \* main.ts state.view
  shView,        \* ScreenshotHelper.view
  screenshotQueue,       \* ScreenshotHelper.screenshotQueue
  extraScreenshotQueue,  \* ScreenshotHelper.extraScreenshotQueue
  files,         \* the screenshot files that exist on disk
  nextImg,       \* the next screenshot path (uuidv4), as a number
  problemInfo,   \* main.ts state.problemInfo
  hasDebugged,   \* main.ts state.hasDebugged
  conversationHistory,   \* ProcessingHelper.ts conversationHistory
  currentProcessingAbortController,      \* the flow whose controller it holds, or 0 for null
  currentExtraProcessingAbortController, \* same, for the debug branch
  flows,         \* the calls of processScreenshots, in the order they began
  nflows,        \* how many there are
  sent,          \* the events the last step sent to the renderer, in order
  conversationContext,   \* what the last getConversationContext() returned
  ncalls,        \* how many calls of addToConversationHistory were made
  voice,         \* the call of VoiceHelper.processAudioData, with its history
  deletion       \* the call of deleteScreenshot

gwVars == << gw, gwSignal >>
storeVars == << apiKey, userModel >>
queueVars == << screenshotQueue, extraScreenshotQueue, files, nextImg >>
appVars == << view, shView, problemInfo, hasDebugged >>
ctlVars == << currentProcessingAbortController, currentExtraProcessingAbortController >>
flowVars == << flows, nflows >>
pipeVars ==
  << queueVars, appVars, ctlVars, flowVars, conversationHistory, sent >>

histVars == << conversationContext, ncalls >>

vars == << storeVars, lastUsedModel, gwVars, pipeVars, histVars, voice, deletion >>

StoredModels ==
  { "", "no-such-model", GEMINI_3_PRO_PREVIEW, GEMINI_2_5_PRO, GEMINI_2_5_FLASH,
    GEMINI_2_0_FLASH }

\* the state after initializeHelpers() of main.ts
AppInit ==
  /\ view = "queue"
  /\ shView = "queue"
  /\ screenshotQueue = << >>
  /\ extraScreenshotQueue = << >>
  /\ files = {}
  /\ nextImg = 1
  /\ problemInfo = NoProblemInfo
  /\ hasDebugged = FALSE
  /\ currentProcessingAbortController = 0
  /\ currentExtraProcessingAbortController = 0
  /\ flows = [f \in 1..MaxFlows |-> NoFlow]
  /\ nflows = 0
  /\ sent = << >>
  /\ voice = NoVoice
  /\ deletion = NoDeletion

PipeInit ==
  /\ AppInit
  /\ conversationHistory = << >>
  /\ conversationContext = << >>
  /\ ncalls = 0

\* ------------------------------------------ one gateway call on its own
GwInit ==
  /\ apiKey \in BOOLEAN
  /\ userModel \in StoredModels
  /\ lastUsedModel = DEFAULT_MODEL
  /\ gw = NoCall
  /\ gwSignal = FALSE
  /\ PipeInit

recordModel(c, last) == IF c.st = "ok" THEN c.successfulModel ELSE last

GwExecute ==
  /\ gw.st = "idle"
  /\ gw' = callAIWithFallback(apiKey, userModel, gwSignal, TRUE)
  /\ UNCHANGED << storeVars, histVars, voice, deletion, lastUsedModel, gwSignal, pipeVars >>

GwSettle ==
  /\ Awaiting(gw)
  /\ \E out \in Outcomes : gw' = onSettled(gw, out, gwSignal)
  /\ lastUsedModel' = recordModel(gw', lastUsedModel)
  /\ UNCHANGED << storeVars, histVars, voice, deletion, gwSignal, pipeVars >>

GwTimer ==
  /\ Delaying(gw)
  /\ gw' = onTimeout(gw, gwSignal)
  /\ UNCHANGED << storeVars, histVars, voice, deletion, lastUsedModel, gwSignal, pipeVars >>

GwAbort ==
  /\ ~gwSignal
  /\ ~Ended(gw)
  /\ gwSignal' = TRUE
  /\ UNCHANGED << storeVars, histVars, voice, deletion, lastUsedModel, gw, pipeVars >>

GwNext == GwExecute \/ GwSettle \/ GwTimer \/ GwAbort

GatewaySpec == GwInit /\ [][GwNext]_vars

\* ------------------------------------------------------ the pipeline
Range(s) == {s[k] : k \in DOMAIN s}

MAX_SCREENSHOTS == 2
MAX_HISTORY_MESSAGES == 10

\* Array.prototype.slice(-n)
sliceLast(arr, n) == IF Len(arr) <= n THEN arr ELSE SubSeq(arr, Len(arr) - n + 1, Len(arr))

trimHistory_DropsNewest(history) ==
  IF Len(history) > MAX_HISTORY_MESSAGES * 2
  THEN SubSeq(history, 1, MAX_HISTORY_MESSAGES * 2)
  ELSE history

\* if (conversationHistory.length > MAX * 2) conversationHistory = slice(-MAX * 2)
trimHistory(history) ==
  IF Len(history) > MAX_HISTORY_MESSAGES * 2
  THEN sliceLast(history, MAX_HISTORY_MESSAGES * 2)
  ELSE history

Message(role, tag, about) == [role |-> role, content |-> [tag |-> tag, about |-> about]]

replaceQueue_Unshift(queue, path) == << path >> \o queue

\* ScreenshotHelper.takeScreenshot: this.screenshotQueue = [screenshotPath]
replaceQueue_Push(queue, path) == Append(queue, path)

replaceQueue(queue, path) == << path >>

\* Cmd+H: ScreenshotHelper.takeScreenshot took and saved a screenshot. The
\* queues and ScreenshotHelper.view change in one synchronous block; state.view
\* of main.ts is not touched. A failed capture changes nothing.
TakeScreenshot ==
  /\ nextImg <= MaxImages
  /\ screenshotQueue' = replaceQueue(screenshotQueue, nextImg)
  /\ extraScreenshotQueue' = << >>
  /\ files' = (files \ (Range(screenshotQueue) \cup Range(extraScreenshotQueue)))
                \cup {nextImg}
  /\ nextImg' = nextImg + 1
  /\ shView' = IF shView # "queue" THEN "queue" ELSE shView
  /\ sent' = << Ev(SCREENSHOT_TAKEN, << >>) >>
  /\ UNCHANGED << view, problemInfo, hasDebugged, ctlVars, flowVars,
                  conversationHistory, storeVars, histVars, voice, deletion, lastUsedModel, gwVars >>

\* addSecondary(image) of the design: append, enforcing the configured cap
addSecondary(queue, path) ==
  LET q == Append(queue, path)
  IN  IF Len(q) > MAX_SCREENSHOTS THEN Tail(q) ELSE q

CaptureSecondary ==
  /\ nextImg <= MaxImages
  /\ view = "solutions"
  /\ extraScreenshotQueue' = addSecondary(extraScreenshotQueue, nextImg)
  /\ files' = (files \cup {nextImg})
                \ (Range(extraScreenshotQueue) \ Range(extraScreenshotQueue'))
  /\ nextImg' = nextImg + 1
  /\ sent' = << Ev("extra-screenshot-taken", << >>) >>
  /\ UNCHANGED << screenshotQueue, appVars, ctlVars, flowVars,
                  conversationHistory, storeVars, histVars, voice, deletion, lastUsedModel, gwVars >>

isEmpty_Never(queue) == FALSE

\* screenshotQueue.length === 0
isEmpty(queue) == Len(queue) = 0

\* Cmd+Enter: ProcessingHelper.processScreenshots up to its first await
ProcessScreenshots ==
  /\ UNCHANGED << queueVars, appVars, conversationHistory, storeVars, histVars, voice, deletion,
                  lastUsedModel, gwVars >>
  /\ IF view = "queue"
     THEN IF isEmpty(screenshotQueue)
          THEN /\ sent' = << Ev(INITIAL_START, << >>), Ev(NO_SCREENSHOTS, << >>) >>
               /\ UNCHANGED << ctlVars, flowVars >>
          ELSE /\ nflows < MaxFlows
               /\ sent' = << Ev(INITIAL_START, << >>) >>
               /\ nflows' = nflows + 1
               /\ currentProcessingAbortController' = nflows + 1
               /\ flows' = [flows EXCEPT ![nflows + 1] =
                     [NoFlow EXCEPT !.kind = "solve", !.pc = "prep",
                                    !.shots = screenshotQueue]]
               /\ UNCHANGED currentExtraProcessingAbortController
     ELSE IF isEmpty(extraScreenshotQueue)
          THEN /\ sent' = << Ev(NO_SCREENSHOTS, << >>) >>
               /\ UNCHANGED << ctlVars, flowVars >>
          ELSE /\ nflows < MaxFlows
               /\ sent' = << Ev(DEBUG_START, << >>) >>
               /\ nflows' = nflows + 1
               /\ currentExtraProcessingAbortController' = nflows + 1
               /\ flows' = [flows EXCEPT ![nflows + 1] =
                     [NoFlow EXCEPT !.kind = "debug", !.pc = "prep",
                                    !.shots = screenshotQueue \o extraScreenshotQueue]]
               /\ UNCHANGED currentProcessingAbortController

\* controller.abort() on the controllers the two fields hold
abortHeld(fs, a, b) ==
  [f \in DOMAIN fs |-> IF f \in {a, b} THEN [fs[f] EXCEPT !.aborted = TRUE] ELSE fs[f]]

\* Cmd+R without setHasDebugged(false)
Reset_KeepsHasDebugged ==
  LET a == currentProcessingAbortController
      b == currentExtraProcessingAbortController
      wasCancelled == a # 0 \/ b # 0
  IN  /\ flows' = abortHeld(flows, a, b)
      /\ currentProcessingAbortController' = 0
      /\ currentExtraProcessingAbortController' = 0
      /\ problemInfo' = NoProblemInfo
      /\ screenshotQueue' = << >>
      /\ extraScreenshotQueue' = << >>
      /\ files' = files \ (Range(screenshotQueue) \cup Range(extraScreenshotQueue))
      /\ view' = "queue"
      /\ shView' = "queue"
      /\ conversationHistory' = << >>
      /\ sent' = (IF wasCancelled THEN << Ev(NO_SCREENSHOTS, << >>) >> ELSE << >>)
                   \o << Ev(RESET_VIEW, << >>), Ev(RESET, << >>) >>
      /\ UNCHANGED << hasDebugged, nextImg, nflows, storeVars, histVars, voice, deletion,
                      lastUsedModel, gwVars >>

\* Cmd+R: cancelOngoingRequests(); clearQueues(); clearConversationHistory();
\* setView("queue"); send reset-view, reset
Reset ==
  LET a == currentProcessingAbortController
      b == currentExtraProcessingAbortController
      wasCancelled == a # 0 \/ b # 0
  IN  /\ flows' = abortHeld(flows, a, b)
      /\ currentProcessingAbortController' = 0
      /\ currentExtraProcessingAbortController' = 0
      /\ hasDebugged' = FALSE
      /\ problemInfo' = NoProblemInfo
      /\ screenshotQueue' = << >>
      /\ extraScreenshotQueue' = << >>
      /\ files' = files \ (Range(screenshotQueue) \cup Range(extraScreenshotQueue))
      /\ view' = "queue"
      /\ shView' = "queue"
      /\ conversationHistory' = << >>
      /\ sent' = (IF wasCancelled THEN << Ev(NO_SCREENSHOTS, << >>) >> ELSE << >>)
                   \o << Ev(RESET_VIEW, << >>), Ev(RESET, << >>) >>
      /\ UNCHANGED << nextImg, nflows, storeVars, histVars, voice, deletion, lastUsedModel, gwVars >>

Names(events) == [k \in DOMAIN events |-> events[k].name]

\* a processScreenshots call that has returned, having sent events at the end
Done(fl, events) ==
  [NoFlow EXCEPT !.kind = fl.kind, !.pc = "done", !.ev = fl.ev \o Names(events)]

\* the catch of processScreenshotsHelper and processExtraScreenshotsHelper
helperCatch(error) ==
  IF error.name = "CanceledError"
  THEN << "Processing was canceled by the user." >>
  ELSE error.message

\* processScreenshots, queue branch, if (!result.success): the event sent
failureEvent_Silent(error) == Ev("console.log", error)

failureEvent(error) ==
  IF includes(error, "API Key out of credits") THEN Ev(OUT_OF_CREDITS, << >>)
  ELSE IF includes(error, "Gemini API key not found")
  THEN Ev(INITIAL_SOLUTION_ERROR,
          << "Gemini API key not found. Please set the API Key in Settings." >>)
  ELSE Ev(INITIAL_SOLUTION_ERROR, IF error = << >> THEN << "Unknown error" >> ELSE error)

parseSolution_NoRaw(rawContent) ==
  IF rawContent = << "json-solution" >>
  THEN [short_answer |-> << "answer" >>, code |-> << "code" >>,
        thoughts |-> << << "thought" >> >>]
  ELSE [short_answer |-> << >>, code |-> << >>,
        thoughts |-> << << "Failed to parse AI response." >> >>]

\* generateSolutionsHelper: structuredData from rawContent
parseSolution(rawContent) ==
  IF rawContent = << "json-solution" >>
  THEN [short_answer |-> << "answer" >>, code |-> << "code" >>,
        thoughts |-> << << "thought" >> >>]
  ELSE IF rawContent = << "json-other-shape" >>
  THEN [short_answer |-> << >>,
        code |-> << "// AI Response (unexpected format):" >> \o rawContent,
        thoughts |-> << << "Received unexpected structure from AI" >>, rawContent >>]
  ELSE [short_answer |-> << >>,
        code |-> << "// Error: Could not process the response from the AI." >>,
        thoughts |-> << << "The AI response could not be understood" >>,
                        << "Raw AI Response:" >>, rawContent >>]

\* processScreenshots, queue branch, from the result of processScreenshotsHelper
\* to its return: a failure sends one event and sets the view to "queue"
SolveFailed(f, error, hist) ==
  /\ flows' = [flows EXCEPT ![f] = Done(flows[f], << failureEvent(error) >>)]
  /\ sent' = << failureEvent(error) >>
  /\ view' = "queue"
  /\ shView' = "queue"
  /\ currentProcessingAbortController' = 0
  /\ conversationHistory' = hist
  /\ UNCHANGED << screenshotQueue, extraScreenshotQueue, files, problemInfo,
                  hasDebugged, currentExtraProcessingAbortController >>

\* generateSolutionsHelper, catch, error.name === "CanceledError":
\* cancelOngoingRequests(), clearQueues(), setView("queue"), reset-view and
\* solution-error; then the failure goes the way of SolveFailed
GenerateCanceled(f, hist) ==
  LET a == currentProcessingAbortController
      b == currentExtraProcessingAbortController
      fs == abortHeld(flows, a, b)
      events ==
        (IF a # 0 \/ b # 0 THEN << Ev(NO_SCREENSHOTS, << >>) >> ELSE << >>)
          \o << Ev(RESET_VIEW, << >>),
                Ev(INITIAL_SOLUTION_ERROR, << "Request timed out. The server took too long to respond. Please try again." >>),
                failureEvent(<< "Request timed out. Please try again." >>) >>
  IN  /\ flows' = [fs EXCEPT ![f] = Done(fs[f], events)]
      /\ sent' = events
      /\ currentProcessingAbortController' = 0
      /\ currentExtraProcessingAbortController' = 0
      /\ hasDebugged' = FALSE
      /\ problemInfo' = NoProblemInfo
      /\ screenshotQueue' = << >>
      /\ extraScreenshotQueue' = << >>
      /\ files' = files \ (Range(screenshotQueue) \cup Range(extraScreenshotQueue))
      /\ view' = "queue"
      /\ shView' = "queue"
      /\ conversationHistory' = hist

setHasDebugged_Ignored(value) == FALSE

\* main.ts setHasDebugged: the value state.hasDebugged takes
setHasDebugged(value) == value

\* callAIWithFallback returned or threw in flow f; the helper that called
\* it (stage) and processScreenshots run on to the next await or to the end.
\* hist is conversationHistory as the helper has left it so far.
AfterCall(f, stage, c, hist) ==
  LET fl == flows[f]
      used == IF c.st = "ok" THEN << Ev(MODEL_USED, << c.successfulModel >>) >> ELSE << >>
      data == parseSolution(c.result)
  IN
  IF stage = "Extract" /\ c.st = "ok"
  THEN \* setProblemInfo, problem-extracted, generateSolutionsHelper to await getLanguage()
       /\ problemInfo' = ProblemInfo(fl.shots)
       /\ flows' = [flows EXCEPT ![f] =
            [fl EXCEPT !.pc = "lang2", !.stage = "", !.call = NoCall,
                       !.info = ProblemInfo(fl.shots),
                       !.ev = @ \o << MODEL_USED, PROBLEM_EXTRACTED >>]]
       /\ sent' = used \o << Ev(PROBLEM_EXTRACTED, ProblemInfo(fl.shots)) >>
       /\ conversationHistory' = hist
       /\ UNCHANGED << screenshotQueue, extraScreenshotQueue, files, view, shView,
                       hasDebugged, ctlVars >>
  ELSE IF stage = "Extract"
  THEN SolveFailed(f, helperCatch(c.error), hist)
  ELSE IF stage = "Generate" /\ c.st = "ok"
  THEN \* assistant turn, trim; clearExtraScreenshotQueue; solution-success
       \* from the helper and again from processScreenshots; setView("solutions")
       /\ conversationHistory' = trimHistory(Append(hist,
            Message("assistant",
                    IF data.short_answer # << >> THEN "Answer" ELSE "Solution provided",
                    fl.info.problem_statement)))
       /\ extraScreenshotQueue' = << >>
       /\ files' = files \ Range(extraScreenshotQueue)
       /\ flows' = [flows EXCEPT ![f] =
            Done(fl, used \o << Ev(SOLUTION_SUCCESS, data), Ev(SOLUTION_SUCCESS, data) >>)]
       /\ sent' = used \o << Ev(SOLUTION_SUCCESS, data), Ev(SOLUTION_SUCCESS, data) >>
       /\ view' = "solutions"
       /\ shView' = "solutions"
       /\ currentProcessingAbortController' = 0
       /\ UNCHANGED << screenshotQueue, problemInfo, hasDebugged,
                       currentExtraProcessingAbortController >>
  ELSE IF stage = "Generate" /\ c.error.name = "CanceledError"
  THEN GenerateCanceled(f, hist)
  ELSE IF stage = "Generate"
  THEN \* {success: false, error: error.message}, thrown again by
       \* processScreenshotsHelper as new Error(error || "Failed to generate solutions")
       SolveFailed(f,
         helperCatch(JsError(IF c.error.message = << >>
                             THEN << "Failed to generate solutions" >>
                             ELSE c.error.message)),
         hist)
  ELSE \* stage = "Debug": the result of processExtraScreenshotsHelper
       LET events == IF c.st = "ok"
                     THEN used \o << Ev(DEBUG_SUCCESS, c.result) >>
                     ELSE << Ev(DEBUG_ERROR, helperCatch(c.error)) >>
       IN
       /\ flows' = [flows EXCEPT ![f] = Done(fl, events)]
       /\ sent' = events
       /\ hasDebugged' = IF c.st = "ok" THEN setHasDebugged(TRUE) ELSE hasDebugged
       /\ currentExtraProcessingAbortController' = 0
       /\ conversationHistory' = hist
       /\ UNCHANGED << screenshotQueue, extraScreenshotQueue, files, view, shView,
                       problemInfo, currentProcessingAbortController >>

\* flow f after a step of its callAIWithFallback call: suspended again, or on
Proceed(f, stage, c, hist) ==
  /\ UNCHANGED << storeVars, histVars, voice, deletion, gwVars, nextImg, nflows >>
  /\ lastUsedModel' = recordModel(c, lastUsedModel)
  /\ IF Ended(c)
     THEN AfterCall(f, stage, c, hist)
     ELSE /\ flows' = [flows EXCEPT ![f].pc = "gw", ![f].stage = stage, ![f].call = c]
          /\ sent' = << >>
          /\ conversationHistory' = hist
          /\ UNCHANGED << screenshotQueue, extraScreenshotQueue, files, appVars, ctlVars >>

\* await Promise.all(queue.map(... getImagePreview(path) ... readFileSync(path)))
\* settles: with the files read the helper is called and suspends at
\* getLanguage() (the debug helper having read problemInfo); a file that is
\* gone throws into the catch of processScreenshots
PrepDone(f) ==
  LET fl == flows[f]
      enoent == << "ENOENT: no such file or directory" >>
  IN
  /\ fl.pc = "prep"
  /\ UNCHANGED << storeVars, histVars, voice, deletion, lastUsedModel, gwVars, queueVars, problemInfo,
                  hasDebugged, nflows, conversationHistory >>
  /\ IF Range(fl.shots) \subseteq files
     THEN /\ flows' = [flows EXCEPT ![f].pc = "lang",
                         ![f].info = IF fl.kind = "debug" THEN problemInfo ELSE @]
          /\ sent' = << >>
          /\ UNCHANGED << view, shView, ctlVars >>
     ELSE IF fl.kind = "solve"
     THEN /\ flows' = [flows EXCEPT ![f] =
               Done(fl, << Ev(INITIAL_SOLUTION_ERROR, enoent),
                           Ev(INITIAL_SOLUTION_ERROR, enoent) >>)]
          /\ sent' = << Ev(INITIAL_SOLUTION_ERROR, enoent),
                        Ev(INITIAL_SOLUTION_ERROR, enoent) >>
          /\ view' = "queue"
          /\ shView' = "queue"
          /\ currentProcessingAbortController' = 0
          /\ UNCHANGED currentExtraProcessingAbortController
     ELSE /\ flows' = [flows EXCEPT ![f] = Done(fl, << Ev(DEBUG_ERROR, enoent) >>)]
          /\ sent' = << Ev(DEBUG_ERROR, enoent) >>
          /\ currentExtraProcessingAbortController' = 0
          /\ UNCHANGED << view, shView, currentProcessingAbortController >>

\* await getLanguage() settles in processScreenshotsHelper ("Extract") or in
\* processExtraScreenshotsHelper ("Debug", which throws without problemInfo):
\* callAIWithFallback runs to its first await
LangDone(f) ==
  LET fl == flows[f]
  IN
  /\ fl.pc = "lang"
  /\ IF fl.kind = "solve"
     THEN Proceed(f, "Extract",
                  callAIWithFallback(apiKey, userModel, fl.aborted, FALSE),
                  conversationHistory)
     ELSE IF fl.info.isNull
     THEN Proceed(f, "Debug", throw(NoCall, JsError(<< "No problem info available" >>)),
                  conversationHistory)
     ELSE Proceed(f, "Debug",
                  callAIWithFallback(apiKey, userModel, fl.aborted, FALSE),
                  conversationHistory)

\* await getLanguage() settles in generateSolutionsHelper: the user turn is
\* pushed (untrimmed) and callAIWithFallback runs to its first await
Lang2Done(f) ==
  LET fl == flows[f]
  IN
  /\ fl.pc = "lang2"
  /\ Proceed(f, "Generate",
             callAIWithFallback(apiKey, userModel, fl.aborted, FALSE),
             Append(conversationHistory,
                    Message("user", "Problem", fl.info.problem_statement)))

\* the generateContent flow f awaits settles
Settle(f) ==
  LET fl == flows[f]
  IN
  /\ fl.pc = "gw"
  /\ Awaiting(fl.call)
  /\ \E out \in Outcomes :
       Proceed(f, fl.stage, onSettled(fl.call, out, fl.aborted), conversationHistory)

\* the setTimeout flow f awaits fires
Timer(f) ==
  LET fl == flows[f]
  IN
  /\ fl.pc = "gw"
  /\ Delaying(fl.call)
  /\ Proceed(f, fl.stage, onTimeout(fl.call, fl.aborted), conversationHistory)

Init ==
  /\ apiKey \in BOOLEAN
  /\ userModel = GEMINI_2_0_FLASH
  /\ lastUsedModel = DEFAULT_MODEL
  /\ gw = NoCall
  /\ gwSignal = FALSE
  /\ PipeInit

Next ==
  \/ TakeScreenshot
  \/ CaptureSecondary
  \/ ProcessScreenshots
  \/ Reset
  \/ \E f \in 1..MaxFlows : PrepDone(f)
  \/ \E f \in 1..MaxFlows : LangDone(f)
  \/ \E f \in 1..MaxFlows : Lang2Done(f)
  \/ \E f \in 1..MaxFlows : Settle(f)
  \/ \E f \in 1..MaxFlows : Timer(f)

Spec == Init /\ [][Next]_vars

\* ------------------------------------------- the conversation history alone
\* calls of addToConversationHistory made over one run
MaxCalls == 3

\* content.length > 500 ? content.substring(0, 500) + "..." : content
CONTEXT_CHARS == 500

\* the lengths of the contents added: short, at the ceiling, and beyond it
ContentLengths == {1, CONTEXT_CHARS, CONTEXT_CHARS + 1}

\* a message whose content is the text named id, of len characters
Turn(role, id, len) ==
  [role |-> role, content |-> [tag |-> "Turn", about |-> << id >>, len |-> len]]

\* addToConversationHistory(role, content): push, then trim
addToConversationHistory(history, msg) == trimHistory(Append(history, msg))

\* String.prototype.substring(0, end): the first end characters of the text
substring(content, end) == [content EXCEPT !.len = IF @ < end THEN @ ELSE end]

recentHistory_All(history) == history

\* conversationHistory.slice(-MAX_HISTORY_MESSAGES)
recentHistory(history) == sliceLast(history, MAX_HISTORY_MESSAGES)

\* one element of recentHistory.map(...): `${role}: ${content}`, the content
\* cut to 500 characters and followed by "..." when it was longer
renderMessage(msg) ==
  LET long == msg.content.len > CONTEXT_CHARS
  IN  [role |-> IF msg.role = "user" THEN "User" ELSE "Assistant",
       content |-> IF long THEN substring(msg.content, CONTEXT_CHARS) ELSE msg.content,
       ellipsis |-> long]

\* getConversationContext(): "" (<< >>) for an empty history, else the
\* rendered messages joined by blank lines, here the sequence of them
getConversationContext(history) ==
  IF Len(history) = 0 THEN << >>
  ELSE [k \in 1..Len(recentHistory(history)) |-> renderMessage(recentHistory(history)[k])]

\* a history of n messages left by earlier exchanges, numbered up to 0. A
\* history holds up to MAX * 2 messages after a trim and one more while
\* generateSolutionsHelper, having pushed its user turn, awaits the provider.
PriorLog(n, len) ==
  [k \in 1..n |-> Turn(IF k % 2 = 1 THEN "user" ELSE "assistant", k - n, len)]

PriorLogs ==
  {PriorLog(n, len) : n \in 0..(MAX_HISTORY_MESSAGES * 2 + 1), len \in ContentLengths}

HistInit ==
  /\ apiKey = TRUE
  /\ userModel = ""
  /\ lastUsedModel = DEFAULT_MODEL
  /\ gw = NoCall
  /\ gwSignal = FALSE
  /\ AppInit
  /\ conversationHistory \in PriorLogs
  /\ conversationContext = << >>
  /\ ncalls = 0

restVars ==
  << storeVars, lastUsedModel, gwVars, queueVars, appVars, ctlVars, flowVars, sent,
     voice, deletion >>

\* addToConversationHistory(role, content), as VoiceHelper calls it
AddToConversationHistory ==
  /\ ncalls < MaxCalls
  /\ \E role \in {"user", "assistant"}, len \in ContentLengths :
       conversationHistory' =
         addToConversationHistory(conversationHistory, Turn(role, ncalls + 1, len))
  /\ ncalls' = ncalls + 1
  /\ UNCHANGED << conversationContext, restVars >>

\* const conversationContext = getConversationContext()
GetConversationContext ==
  /\ conversationContext' = getConversationContext(conversationHistory)
  /\ UNCHANGED << conversationHistory, ncalls, restVars >>

\* clearConversationHistory()
ClearConversationHistory ==
  /\ conversationHistory' = << >>
  /\ UNCHANGED << conversationContext, ncalls, restVars >>

HistNext ==
  \/ AddToConversationHistory
  \/ GetConversationContext
  \/ ClearConversationHistory

HistorySpec == HistInit /\ [][HistNext]_vars

\* -------------------------------- the pipeline after earlier exchanges
\* the history n earlier solved problems have left, the problems read from
\* screenshots taken before this run (numbered 0)
SolvedLog(n) ==
  [k \in 1..(2 * n) |->
     IF k % 2 = 1 THEN Message("user", "Problem", << 0 >>)
     ELSE Message("assistant", "Answer", << 0 >>)]

\* no earlier exchange, or a history at or next to its capacity
SolvedLogs ==
  {SolvedLog(n) : n \in {0, MAX_HISTORY_MESSAGES - 1, MAX_HISTORY_MESSAGES}}

LongInit ==
  /\ apiKey \in BOOLEAN
  /\ userModel = GEMINI_2_0_FLASH
  /\ lastUsedModel = DEFAULT_MODEL
  /\ gw = NoCall
  /\ gwSignal = FALSE
  /\ AppInit
  /\ conversationHistory \in SolvedLogs
  /\ conversationContext = << >>
  /\ ncalls = 0

LongSpec == LongInit /\ [][Next]_vars

\* ------------------------------------------------ history of a gateway call
Payload(out) == IF out.hasText THEN out.text ELSE << >>

\* the classification of a settled attempt, by the predicates of config.ts
ClassOf(out) ==
  IF out.ok THEN "ok"
  ELSE IF isRateLimitError(out.error) THEN "RateLimited"
  ELSE IF isNetworkError(out.error) THEN "NetworkTransient"
  ELSE "Unknown"

\* attempt k is the first one made against its candidate
FirstAttempt(k) == k = 1 \/ gw.attempts[k - 1] # gw.attempts[k]
TimesAttempted(m) == Cardinality({k \in 1..Len(gw.attempts) : gw.attempts[k] = m})
Settled == 1..Len(gw.outcomes)
AllRateLimited == \A k \in Settled : ClassOf(gw.outcomes[k]) = "RateLimited"
EveryCandidateAttempted ==
  /\ Len(gw.chain) > 0
  /\ \A j \in 1..Len(gw.chain) : TimesAttempted(gw.chain[j]) > 0
Canceled == JsError(<< "CanceledError" >>)

\* C6: when every attempt of an execute fails with RateLimited, the attempts
\* made are the candidates of the chain, each once and in order; the execute
\* that runs out of candidates has made exactly N = Len(chain) attempts.
C6_RateLimitedOneAttemptEach ==
  AllRateLimited =>
    /\ Len(gw.attempts) <= Len(gw.chain)
    /\ gw.attempts = SubSeq(gw.chain, 1, Len(gw.attempts))
    /\ (gw.st = "fail" /\ EveryCandidateAttempted => gw.attempts = gw.chain)

C6_Witness ==
  /\ gw.st = "fail"
  /\ AllRateLimited
  /\ Len(gw.chain) = 4
  /\ Len(gw.outcomes) = 4

\* C7: attempts follow the chain (same candidate again, or the next one); a
\* candidate whose first attempt failed with NetworkTransient is attempted
\* next again, never more than twice, and exactly twice once the gateway has
\* moved on or ended; one delay is awaited per RateLimited or
\* NetworkTransient first failure, so the retry follows one base delay.
C7_NetworkRetryOnceInOrder ==
  /\ \A k \in 1..Len(gw.attempts) :
       /\ k = 1 => gw.attempts[k] = gw.chain[1]
       /\ k > 1 => indexOf(gw.chain, gw.attempts[k])
                     - indexOf(gw.chain, gw.attempts[k - 1]) \in {0, 1}
  /\ \A k \in Settled :
       FirstAttempt(k) /\ ClassOf(gw.outcomes[k]) = "NetworkTransient" =>
         /\ Len(gw.attempts) > k => gw.attempts[k + 1] = gw.attempts[k]
         /\ TimesAttempted(gw.attempts[k]) <= 2
         /\ (Ended(gw) \/ gw.attempts[Len(gw.attempts)] # gw.attempts[k])
              => TimesAttempted(gw.attempts[k]) = 2
         /\ Len(gw.attempts) > k =>
              gw.delays >= Cardinality({j \in 1..k : FirstAttempt(j)
                              /\ ClassOf(gw.outcomes[j]) = "NetworkTransient"})
  /\ gw.delays = Cardinality({k \in Settled : FirstAttempt(k)
         /\ ClassOf(gw.outcomes[k]) \in {"RateLimited", "NetworkTransient"}})

C7_Witness ==
  /\ Len(gw.attempts) >= 3
  /\ ClassOf(gw.outcomes[1]) = "NetworkTransient"
  /\ gw.attempts[2] = gw.attempts[1]
  /\ gw.attempts[3] # gw.attempts[2]
  /\ gw.delays = 1

\* C8: when the first k attempts fail with RateLimited and the next succeeds,
\* the execute returns that response's text, has made k+1 attempts at the
\* first k+1 candidates and k delays, has recorded candidate k+1 as last used
\* model and sent one model-used event; a failed execute has sent none.
C8_FallbackSuccess ==
  LET n == Len(gw.outcomes) IN
  /\ gw.st = "ok" /\ (\A k \in 1..(n - 1) : ClassOf(gw.outcomes[k]) = "RateLimited") =>
       /\ gw.result = Payload(gw.outcomes[n])
       /\ gw.attempts = SubSeq(gw.chain, 1, n)
       /\ gw.delays = n - 1
       /\ gw.successfulModel = gw.chain[n]
       /\ lastUsedModel = gw.chain[n]
       /\ gw.modelUsed = 1
  /\ gw.st = "fail" => gw.modelUsed = 0

C8_Witness ==
  /\ gw.st = "ok"
  /\ Len(gw.chain) = 3
  /\ Len(gw.outcomes) = 2
  /\ ClassOf(gw.outcomes[1]) = "RateLimited"
  /\ gw.result = << "json-solution" >>
  /\ Len(gw.attempts) = 2
  /\ gw.delays = 1

\* C9: an execute in which every candidate was attempted and that failed
\* throws one Error whose message is getErrorMessage of the last error seen,
\* after one attempt per candidate plus one more for each candidate whose
\* first attempt failed with NetworkTransient.
C9_ExhaustedMessageAndCount ==
  gw.st = "fail" /\ EveryCandidateAttempted =>
    /\ gw.error = JsError(getErrorMessage(gw.outcomes[Len(gw.outcomes)].error))
    /\ Len(gw.outcomes) = Len(gw.attempts)
    /\ Cardinality({k \in Settled : FirstAttempt(k)}) = Len(gw.chain)
    /\ Len(gw.attempts) = Len(gw.chain)
         + Cardinality({k \in Settled : FirstAttempt(k)
                          /\ ClassOf(gw.outcomes[k]) = "NetworkTransient"})

C9_Witness ==
  /\ gw.st = "fail"
  /\ Len(gw.chain) = 3
  /\ Len(gw.outcomes) = 4
  /\ ClassOf(gw.outcomes[1]) = "RateLimited"
  /\ ClassOf(gw.outcomes[2]) = "NetworkTransient"
  /\ ClassOf(gw.outcomes[3]) = "NetworkTransient"
  /\ ClassOf(gw.outcomes[4]) = "Unknown"
  /\ gw.attempts = << GEMINI_2_5_PRO, GEMINI_2_5_FLASH, GEMINI_2_5_FLASH, GEMINI_2_0_FLASH >>
  /\ gw.error.message = << "boom" >>

\* the step reaches the head of the candidate loop with a candidate left:
\* the call begins, a rate-limit delay ends, or an attempt fails without
\* a delay to follow (a retry, or an error of no retried class)
ReachesLoopHead ==
  \/ gw.st = "idle" /\ gw'.st # "idle" /\ apiKey
  \/ gw.st = "rateDelay" /\ gw' # gw /\ gw.i < Len(gw.chain)
  \/ /\ Awaiting(gw) /\ gw' # gw /\ gw.i < Len(gw.chain)
     /\ LET out == gw'.outcomes[Len(gw'.outcomes)]
        IN  ~out.ok /\ (gw.st = "retryAwait" \/ ClassOf(out) = "Unknown")

\* C10: when the signal is already aborted as the gateway comes to the next
\* candidate, the execute fails at once with the CanceledError error and
\* makes no attempt at that candidate; a failed execute attempts nothing more.
C10_AbortedBeforeCandidate ==
  [][ /\ gwSignal /\ ReachesLoopHead =>
           gw'.st = "fail" /\ gw'.error = Canceled /\ gw'.attempts = gw.attempts
      /\ Ended(gw) => gw' = gw ]_vars

C10_Witness ==
  /\ gw.st = "fail"
  /\ gw.error = Canceled
  /\ gwSignal
  /\ Len(gw.attempts) = 1
  /\ Len(gw.chain) = 4

\* C11: once the signal is aborted while a generateContent is awaited, the
\* call does not return a text and sends no model-used, whatever the
\* provider answers; when it ends, it ends with the CanceledError error.
C11_AbortObservedInFlight ==
  [][ Awaiting(gw) /\ gwSignal /\ gw' # gw =>
        /\ gw'.st # "ok"
        /\ gw'.modelUsed = 0
        /\ Ended(gw') => gw'.error = Canceled ]_vars

NoKeyError == JsError(<< "Please set your API Key in Settings." >>)

\* C12: without an API key the call throws at once: no chain is computed,
\* generateContent is never called, no delay is awaited and no model-used
\* is sent.
C12_AuthMissingFailsAtOnce ==
  ~apiKey /\ gw.st # "idle" =>
    /\ gw.st = "fail"
    /\ gw.error = NoKeyError
    /\ gw.chain = << >>
    /\ gw.attempts = << >>
    /\ gw.delays = 0
    /\ gw.modelUsed = 0

C12_Witness ==
  /\ ~apiKey
  /\ gw.st = "fail"
  /\ gw.error = NoKeyError
  /\ userModel = GEMINI_3_PRO_PREVIEW

InTable(m) == \E k \in 1..Len(MODEL_FALLBACK_ORDER) : MODEL_FALLBACK_ORDER[k] = m

\* C13: the chain a call works through is the part of MODEL_FALLBACK_ORDER
\* from the preferred model to the end, in the order of the table, when the
\* preferred model is in the table, and the whole table when it is not.
C13_ChainIsSuffixFromPreferred ==
  apiKey /\ gw.st # "idle" =>
    LET preferred == preferredModel(userModel)
        n == Len(MODEL_FALLBACK_ORDER)
    IN  IF InTable(preferred)
        THEN /\ Len(gw.chain) > 0
             /\ gw.chain[1] = preferred
             /\ \E k \in 1..n : gw.chain = SubSeq(MODEL_FALLBACK_ORDER, k, n)
        ELSE gw.chain = MODEL_FALLBACK_ORDER

C13_Witness ==
  /\ gw.st = "await"
  /\ userModel = GEMINI_2_5_PRO
  /\ gw.chain = << GEMINI_2_5_PRO, GEMINI_2_5_FLASH, GEMINI_2_0_FLASH >>

\* ------------------------------------------------- claims on the pipeline
SolveFlows == {f \in 1..MaxFlows : InFlight(flows[f]) /\ flows[f].kind = "solve"}
DebugFlows == {f \in 1..MaxFlows : InFlight(flows[f]) /\ flows[f].kind = "debug"}

\* the step is the synchronous block of takeScreenshot (Cmd+H)
IsCapturePrimary ==
  /\ nextImg' = nextImg + 1
  /\ sent' = << Ev(SCREENSHOT_TAKEN, << >>) >>

\* the step is one of flow f itself: it resumes from an await
FlowActs(f) == flows'[f].pc # flows[f].pc \/ flows'[f].call # flows[f].call

HasSent(events, names) == \E k \in DOMAIN events : events[k].name \in names

\* C1: at any time at most one call of processScreenshots is in flight in the
\* queue branch (extraction, solution) and at most one in the debug branch.
C1_AtMostOneFlowPerClass ==
  /\ Cardinality(SolveFlows) <= 1
  /\ Cardinality(DebugFlows) <= 1

\* the session as reset leaves it
CleanSession ==
  /\ view = "queue"
  /\ screenshotQueue = << >>
  /\ extraScreenshotQueue = << >>
  /\ conversationHistory = << >>
  /\ problemInfo.isNull

\* C2: a solve flow whose controller was aborted (by reset) while its
\* solution call awaited the provider, and that returns in the session as
\* reset left it, leaves the view "queue", both queues empty, the conversation
\* history empty and problemInfo null, and sends no further reset-view.
C2_ResetWhileSolvingStaysReset ==
  [][ \A f \in 1..MaxFlows :
        /\ flows[f].kind = "solve"
        /\ flows[f].pc = "gw"
        /\ flows[f].stage = "Generate"
        /\ flows[f].aborted
        /\ CleanSession
        /\ flows'[f].pc = "done"
        => /\ CleanSession'
           /\ ~HasSent(sent', {RESET_VIEW}) ]_vars

\* the primary queue holds a screenshot taken after flow f read its own
StaleSolveFlow(f) ==
  /\ InFlight(flows[f])
  /\ flows[f].kind = "solve"
  /\ Len(screenshotQueue) > 0
  /\ \A s \in Range(flows[f].shots) : screenshotQueue[1] > s

\* C3: taking a screenshot aborts the controller of every solve flow in
\* flight; a solve flow older than the screenshot in the primary queue does
\* not set problemInfo or the view and sends neither problem-extracted nor
\* solution-success.
C3_CaptureAbortsOlderSolveFlow ==
  [][ /\ IsCapturePrimary => \A f \in SolveFlows : flows'[f].aborted
      /\ \A f \in 1..MaxFlows :
           StaleSolveFlow(f) /\ FlowActs(f) =>
             /\ problemInfo' = problemInfo
             /\ view' = view
             /\ ~HasSent(sent', {PROBLEM_EXTRACTED, SOLUTION_SUCCESS}) ]_vars

C5_CaptureForcesQueueView ==
  [][ IsCapturePrimary => view' = "queue" ]_vars

\* ------------------------------------------ claims on the conversation history
Capacity == MAX_HISTORY_MESSAGES * 2
Min(a, b) == IF a < b THEN a ELSE b

C15_HistoryWithinCapacity == Len(conversationHistory) <= Capacity

\* ctx is the rendering of the last (at most MAX_HISTORY_MESSAGES) messages
\* of h, in order, each content cut to at most 500 characters and marked with
\* the ellipsis exactly when it was cut
RendersRecent(h, ctx) ==
  /\ Len(ctx) = Min(Len(h), MAX_HISTORY_MESSAGES)
  /\ \A k \in 1..Len(ctx) :
       LET msg == h[Len(h) - Len(ctx) + k]
       IN  /\ ctx[k].role = (IF msg.role = "user" THEN "User" ELSE "Assistant")
           /\ ctx[k].content.about = msg.content.about
           /\ ctx[k].content.len = Min(msg.content.len, 500)
           /\ ctx[k].ellipsis = (msg.content.len > 500)

IsProcess ==
  /\ nextImg' = nextImg
  /\ ~HasSent(sent', {RESET})
  /\ \A f \in 1..MaxFlows : InFlight(flows[f]) => flows'[f] = flows[f]

RelevantQueue == IF view = "queue" THEN screenshotQueue ELSE extraScreenshotQueue

\* C17: processScreenshots with the queue of its branch empty (the primary
\* queue in view "queue", the extra queue otherwise) sends
\* processing-no-screenshots and changes nothing: view, problemInfo,
\* conversation history and both queues stay, no AbortController is created
\* and no flow (so no gateway call) begins.
C17_EmptyQueueChangesNothing ==
  [][ IsProcess /\ RelevantQueue = << >> =>
        /\ HasSent(sent', {NO_SCREENSHOTS})
        /\ UNCHANGED << view, shView, problemInfo, hasDebugged, conversationHistory,
                        screenshotQueue, extraScreenshotQueue, files >>
        /\ UNCHANGED << ctlVars, flowVars >> ]_vars

\* processScreenshots has just found the extra queue empty after a solution
C17_Witness ==
  /\ sent = << Ev(NO_SCREENSHOTS, << >>) >>
  /\ view = "solutions"
  /\ extraScreenshotQueue = << >>
  /\ currentExtraProcessingAbortController = 0
  /\ nflows = 1

\* response texts that are not the JSON object generateSolutionsHelper expects
Malformed == Texts \ { << "json-solution" >> }

Placeholders ==
  { "// AI Response (unexpected format):",
    "// Error: Could not process the response from the AI." }

\* the record made from a malformed text raw: the text among its thoughts,
\* a placeholder comment as its code, no short answer
Degraded(data, raw) ==
  /\ \E k \in DOMAIN data.thoughts : data.thoughts[k] = raw
  /\ Len(data.code) > 0
  /\ data.code[1] \in Placeholders
  /\ data.short_answer = << >>

Valid(data) == data.code = << "code" >> /\ data.thoughts = << << "thought" >> >>

Count(events, name) == Cardinality({k \in DOMAIN events : events[k].name = name})

\* C19: a processScreenshots call that ends without success has sent
\* exactly one error event, solution-error in the queue branch and
\* debug-error in the debug branch, and leaves the view "queue" in the queue
\* branch and as it was in the debug branch.
C19_OneErrorEventPerFailure ==
  [][ \A f \in 1..MaxFlows :
        /\ InFlight(flows[f])
        /\ flows'[f].pc = "done"
        /\ ~HasSent(sent', {SOLUTION_SUCCESS, DEBUG_SUCCESS})
        => IF flows[f].kind = "solve"
           THEN /\ Count(sent', INITIAL_SOLUTION_ERROR) = 1
                /\ Count(sent', DEBUG_ERROR) = 0
                /\ view' = "queue"
           ELSE /\ Count(sent', DEBUG_ERROR) = 1
                /\ Count(sent', INITIAL_SOLUTION_ERROR) = 0
                /\ view' = view ]_vars

\* --------------------------------------------------------------- liveness
\* the step with which flow f resumes from the await it is suspended at
FlowStep(f) ==
  PrepDone(f) \/ LangDone(f) \/ Lang2Done(f) \/ Settle(f) \/ Timer(f)

\* Every await of a flow settles: the image reads, getLanguage(), the
\* setTimeout delays and (the premise of C20) every generateContent.
Fairness == \A f \in 1..MaxFlows : WF_vars(FlowStep(f))

\* the first screenshot has been taken
LiveInit ==
  /\ apiKey \in BOOLEAN
  /\ userModel = GEMINI_2_0_FLASH
  /\ lastUsedModel = DEFAULT_MODEL
  /\ gw = NoCall
  /\ gwSignal = FALSE
  /\ view = "queue"
  /\ shView = "queue"
  /\ screenshotQueue = << 1 >>
  /\ extraScreenshotQueue = << >>
  /\ files = {1}
  /\ nextImg = 2
  /\ problemInfo = NoProblemInfo
  /\ hasDebugged = FALSE
  /\ currentProcessingAbortController = 0
  /\ currentExtraProcessingAbortController = 0
  /\ flows = [f \in 1..MaxFlows |-> NoFlow]
  /\ nflows = 0
  /\ sent = << Ev(SCREENSHOT_TAKEN, << >>) >>
  /\ voice = NoVoice
  /\ deletion = NoDeletion
  /\ conversationHistory = << >>
  /\ conversationContext = << >>
  /\ ncalls = 0

\* processing, secondary screenshots and resets around the flows; a reset
\* also removes the files a flow has yet to read
LiveNext ==
  \/ CaptureSecondary
  \/ ProcessScreenshots
  \/ Reset
  \/ \E f \in 1..MaxFlows : FlowStep(f)

LiveSpec == LiveInit /\ [][LiveNext]_vars /\ Fairness

Released(f) ==
  /\ currentProcessingAbortController # f
  /\ currentExtraProcessingAbortController # f

Ended4 == {SOLUTION_SUCCESS, INITIAL_SOLUTION_ERROR, DEBUG_SUCCESS, DEBUG_ERROR}

FinishedWith(f, names) ==
  /\ flows[f].pc = "done"
  /\ HasSent([k \in DOMAIN flows[f].ev |-> [name |-> flows[f].ev[k]]], names)
  /\ Released(f)

\* C20, as stated: every processScreenshots call that begins a flow
\* eventually returns having sent solution-success, solution-error,
\* debug-success or debug-error, its AbortController no longer held.
C20_FlowEndsWithTerminalEvent ==
  \A f \in 1..MaxFlows : InFlight(flows[f]) ~> FinishedWith(f, Ended4)

\* C20, amended: every processScreenshots call that begins a flow eventually
\* returns, its AbortController no longer held, having sent one of those
\* four events or out-of-credits.
C20_FlowEndsReleased ==
  \A f \in 1..MaxFlows :
    InFlight(flows[f]) ~> FinishedWith(f, Ended4 \cup {OUT_OF_CREDITS})

\* a solve flow has ended on a provider error that names the credits
C20_Witness ==
  /\ FinishedWith(1, {OUT_OF_CREDITS})
  /\ flows[1].kind = "solve"
  /\ view = "queue"

\* ------------------------------------------------ cancellation messages
\* the text both helpers return for an error named "CanceledError"
CanceledByUser == << "Processing was canceled by the user." >>

\* the callAIWithFallback step flow f takes next when its await settles, where
\* that step does not depend on the provider
NextCall(f) ==
  LET fl == flows[f]
  IN  IF fl.pc = "lang2" \/ (fl.pc = "lang" /\ (fl.kind = "solve" \/ ~fl.info.isNull))
      THEN callAIWithFallback(apiKey, userModel, fl.aborted, FALSE)
      ELSE IF fl.pc = "gw" /\ Delaying(fl.call) THEN onTimeout(fl.call, fl.aborted)
      ELSE NoCall

\* callAIWithFallback throws its cancellation error in the next step of flow f
ReturnsCanceled(f) ==
  /\ NextCall(f).st = "fail"
  /\ NextCall(f).error.message = << "CanceledError" >>

\* C21: when the gateway call of an aborted flow ends as canceled, the flow
\* ends sending its error event (solution-error for a solve flow, debug-error
\* for a debug flow) with the canceled-by-user message, and the view is
\* "queue" after a solve flow and "solutions" after a debug flow.
C21_CanceledFlowSaysCanceledByUser ==
  [][\A f \in 1..MaxFlows :
       (ReturnsCanceled(f) /\ flows'[f].pc = "done")
         => IF flows[f].kind = "solve"
            THEN /\ Ev(INITIAL_SOLUTION_ERROR, CanceledByUser) \in Range(sent')
                 /\ view' = "queue"
            ELSE /\ Ev(DEBUG_ERROR, CanceledByUser) \in Range(sent')
                 /\ view' = "solutions"]_vars

\* ------------------------------------------------------------- reset
\* the step is the Cmd+R handler: it alone sends "reset"
IsReset == Ev(RESET, << >>) \in Range(sent')

NoFlowInFlight == \A f \in 1..MaxFlows : ~InFlight(flows[f])

\* C22: a reset taken while no flow is in flight leaves both queues empty,
\* the conversation history empty, problemInfo null, hasDebugged false, both
\* controller fields null and the view "queue", and sends reset-view.
C22_ResetClearsSession ==
  [][ IsReset /\ NoFlowInFlight =>
        /\ CleanSession'
        /\ shView' = "queue"
        /\ ~hasDebugged'
        /\ currentProcessingAbortController' = 0
        /\ currentExtraProcessingAbortController' = 0
        /\ Ev(RESET_VIEW, << >>) \in Range(sent') ]_vars

\* a reset was just taken after a solve flow and a debug flow had both
\* succeeded: from view "solutions", with hasDebugged set, problemInfo set,
\* screenshots in both queues and turns in the history
C22_Witness ==
  /\ sent = << Ev(RESET_VIEW, << >>), Ev(RESET, << >>) >>
  /\ flows[1].pc = "done" /\ SOLUTION_SUCCESS \in Range(flows[1].ev)
  /\ flows[2].pc = "done" /\ DEBUG_SUCCESS \in Range(flows[2].ev)
  /\ nextImg = 3
  /\ CleanSession
  /\ ~hasDebugged

\* ------------------------------------------- the solution in problemInfo
\* flow f, a solve flow, returns in this step having sent solution-success
SolveSucceeds(f) ==
  /\ flows[f].kind = "solve"
  /\ InFlight(flows[f])
  /\ flows'[f].pc = "done"
  /\ HasSent(sent', {SOLUTION_SUCCESS})

\* C23: when a solve flow succeeds, problemInfo.solution is defined from then
\* on for the debug prompt to read, and the conversation history has gained
\* exactly one assistant turn in that step.
C23_SolveWritesSolution ==
  [][ \A f \in 1..MaxFlows :
        SolveSucceeds(f) =>
          /\ ~problemInfo'.isNull => problemInfo'.solution.defined
          /\ Len(conversationHistory') > 0
          /\ conversationHistory'[Len(conversationHistory')].role = "assistant"
          /\ conversationHistory' =
               trimHistory(Append(conversationHistory,
                                  conversationHistory'[Len(conversationHistory')])) ]_vars

\* ------------------------------------------------ extraction, then solution
\* flow f, a solve flow, is in processScreenshotsHelper up to the return of
\* its extraction call
Extracting(f) ==
  /\ flows[f].kind = "solve"
  /\ \/ flows[f].pc = "lang"
     \/ flows[f].pc = "gw" /\ flows[f].stage = "Extract"

\* flow f is in generateSolutionsHelper
Solving(fl) ==
  /\ fl.kind = "solve"
  /\ \/ fl.pc = "lang2"
     \/ fl.pc = "gw" /\ fl.stage = "Generate"

Precedes(ev, a, b) ==
  \A k \in DOMAIN ev : ev[k] = b => \E j \in 1..(k - 1) : ev[j] = a

\* what a step leaves of the extraction of each solve flow, failures being
\* reported with one of the events in failureNames
ExtractionContract(failureNames) ==
  \A f \in 1..MaxFlows :
    /\ Extracting(f) /\ Solving(flows'[f]) =>
         /\ ~problemInfo'.isNull
         /\ problemInfo'.problem_statement = flows[f].shots
         /\ HasSent(sent', {PROBLEM_EXTRACTED})
    /\ Solving(flows'[f]) => PROBLEM_EXTRACTED \in Range(flows'[f].ev)
    /\ flows'[f].kind = "solve" =>
         Precedes(flows'[f].ev, PROBLEM_EXTRACTED, SOLUTION_SUCCESS)
    /\ Extracting(f) /\ flows'[f].pc = "done" =>
         /\ HasSent(sent', failureNames)
         /\ ~HasSent(sent', {PROBLEM_EXTRACTED, SOLUTION_SUCCESS})
         /\ problemInfo' = problemInfo
         /\ view' = "queue"

\* C24 as stated: extraction success writes the statement to problemInfo and
\* sends problem-extracted before the flow enters the solution helper, and
\* problem-extracted precedes solution-success; extraction failure sends
\* solution-error, never enters the solution helper, sends neither
\* problem-extracted nor solution-success, leaves problemInfo as it was and
\* leaves the view "queue".
C24_ExtractionFailureSendsSolutionError ==
  [][ ExtractionContract({INITIAL_SOLUTION_ERROR}) ]_vars

\* C24, amended: the same, where an extraction failure sends solution-error
\* or, for an error text that contains "API Key out of credits", the
\* out-of-credits event.
C24_ExtractionBeforeSolution ==
  [][ ExtractionContract({INITIAL_SOLUTION_ERROR, OUT_OF_CREDITS}) ]_vars

\* one flow has ended on a failed extraction with solution-error alone, and a
\* later one has just had its extraction succeed
C24_Witness ==
  /\ flows[1].kind = "solve" /\ flows[1].pc = "done"
  /\ flows[1].ev = << INITIAL_SOLUTION_ERROR >>
  /\ Solving(flows[2])
  /\ flows[2].pc = "lang2"
  /\ HasSent(sent, {PROBLEM_EXTRACTED})
  /\ problemInfo = ProblemInfo(flows[2].shots)

\* ------------------------------------------------------- the debug flow
\* flow f, a debug flow, returns in this step
DebugEnds(f) ==
  /\ flows[f].kind = "debug"
  /\ InFlight(flows[f])
  /\ flows'[f].pc = "done"

\* what the step in which debug flow f returns leaves behind
DebugOutcome ==
  /\ view' = "solutions"
  /\ \/ /\ HasSent(sent', {DEBUG_SUCCESS})
        /\ hasDebugged'
     \/ /\ HasSent(sent', {DEBUG_ERROR})
        /\ ~HasSent(sent', {DEBUG_SUCCESS})
        /\ hasDebugged' = hasDebugged
        /\ problemInfo' = problemInfo

\* no step but the success of a debug flow sets hasDebugged
OnlyDebugSetsHasDebugged ==
  hasDebugged' /\ ~hasDebugged =>
    \E f \in 1..MaxFlows : DebugEnds(f) /\ HasSent(sent', {DEBUG_SUCCESS})

MaxVoiceTurns == 2

TRANSCRIPTION_COMPLETE == "voice-transcription-complete"

\* String.prototype.trim on a string of tokens, " " being white space
RECURSIVE trimStart(_)
trimStart(s) == IF Len(s) > 0 /\ Head(s) = " " THEN trimStart(Tail(s)) ELSE s

RECURSIVE trimEnd(_)
trimEnd(s) ==
  IF Len(s) > 0 /\ s[Len(s)] = " " THEN trimEnd(SubSeq(s, 1, Len(s) - 1)) ELSE s

trim(s) == trimEnd(trimStart(s))

\* Array.prototype.join on an array of strings
RECURSIVE join(_)
join(ss) == IF ss = << >> THEN << >> ELSE Head(ss) \o join(Tail(ss))

\* what the provider can answer a transcription request with
VoiceTexts == { << "question" >>, << " ", "question", " " >>, << " " >>, << >> }

VoiceErrors ==
  { ApiError(<< "429" >>), ApiError(<< "ECONNRESET" >>), ApiError(<< "boom" >>) }

TranscriptionOutcomes ==
  { Response(TRUE, t) : t \in VoiceTexts } \cup { Response(FALSE, << >>) }
    \cup { Rejection(e) : e \in VoiceErrors }

AnswerOutcomes ==
  { Response(TRUE, t) : t \in Texts } \cup { Response(FALSE, << >>) }
    \cup { Rejection(e) : e \in VoiceErrors }

CouldNotTranscribe == << "Could not transcribe audio. Please try again." >>

\* problem_statement of the problem-extracted event of a voice turn
voiceQuestion(transcription) == << "**Voice Question:**" >> \o transcription

\* formattedData from rawResponse
formatVoiceResponse(rawResponse, transcription) ==
  IF rawResponse = << "json-solution" >>
  THEN [short_answer |-> << "answer" >>, code |-> << "code" >>,
        thoughts |-> << << "thought" >> >>]
  ELSE IF rawResponse = << "json-other-shape" >>
  THEN [short_answer |-> << >>,
        code |-> << "// Voice Response", "// Question:" >> \o transcription
                   \o << "// See explanation above for the answer." >>,
        thoughts |-> << << "Response received." >> >>]
  ELSE [short_answer |-> << >>,
        code |-> << "// Voice Response", "// Question:" >> \o transcription
                   \o rawResponse,
        thoughts |-> << IF rawResponse = << >>
                        THEN << "I couldn't generate a response. Please try again." >>
                        ELSE rawResponse >>]

\* responseSummary; the strings here are shorter than the 300 characters kept
responseSummary(formattedData) ==
  IF formattedData.short_answer # << >> THEN formattedData.short_answer
  ELSE join(formattedData.thoughts)

\* what no step of processAudioData changes
voiceFrame ==
  << storeVars, lastUsedModel, gwVars, queueVars, problemInfo, hasDebugged,
     ctlVars, flowVars, histVars, deletion >>

\* processAudioData is suspended again, as v
VoiceSuspend(v) ==
  /\ voice' = v
  /\ sent' = << >>
  /\ UNCHANGED << conversationHistory, view, shView >>

\* processAudioData is called: setView("queue"), reset-view, the API key
\* check, then await getLanguage()
VoiceBegin ==
  /\ voice.pc \in {"idle", "done"}
  /\ voice.turns < MaxVoiceTurns
  /\ view' = "queue"
  /\ shView' = "queue"
  /\ sent' = << Ev(RESET_VIEW, << >>) >>
  /\ voice' =
       IF ~apiKey
       THEN [NoVoice EXCEPT !.pc = "done", !.ev = << RESET_VIEW >>,
                            !.error = << "Please set your API Key in Settings." >>,
                            !.turns = voice.turns + 1]
       ELSE [NoVoice EXCEPT !.pc = "lang", !.ev = << RESET_VIEW >>,
                            !.turns = voice.turns + 1]
  /\ UNCHANGED << conversationHistory, voiceFrame >>

\* generateContent for models[i] of the first loop is issued
transcribeWith(v, i) ==
  [v EXCEPT !.pc = "transcribe", !.i = i, !.attempts = Append(@, v.chain[i])]

\* await getLanguage() settles: the chain is read and the first loop begins
VoiceLangDone ==
  /\ voice.pc = "lang"
  /\ VoiceSuspend(
       transcribeWith([voice EXCEPT !.chain = getFallbackChain(preferredModel(userModel))],
                      1))
  /\ UNCHANGED voiceFrame

\* after the first loop: without a transcription the call returns its error;
\* with one, the user turn is added, transcription-complete, initial-start
\* and problem-extracted are sent and the second loop begins
AfterTranscription(v) ==
  IF v.transcription = << >>
  THEN /\ voice' = [v EXCEPT !.pc = "done", !.error = CouldNotTranscribe]
       /\ sent' = << >>
       /\ UNCHANGED << conversationHistory, view, shView >>
  ELSE /\ conversationHistory' =
            addToConversationHistory(conversationHistory,
                                     Message("user", "Voice question", v.transcription))
       /\ sent' = << Ev(TRANSCRIPTION_COMPLETE, v.transcription),
                     Ev(INITIAL_START, << >>),
                     Ev(PROBLEM_EXTRACTED, voiceQuestion(v.transcription)) >>
       /\ voice' = [v EXCEPT !.pc = "answer", !.i = 1,
                             !.ev = @ \o << TRANSCRIPTION_COMPLETE, INITIAL_START,
                                            PROBLEM_EXTRACTED >>]
       /\ UNCHANGED << view, shView >>

\* continue in the first loop
TranscribeNext(v) ==
  IF v.i + 1 > Len(v.chain) THEN AfterTranscription(v)
  ELSE VoiceSuspend(transcribeWith(v, v.i + 1))

\* the generateContent of the first loop settles: a response ends the loop
\* (break) with its trimmed text; a rate-limit or network error waits, any
\* other error goes on to the next model
VoiceSettleT ==
  /\ voice.pc = "transcribe"
  /\ \E out \in TranscriptionOutcomes :
       LET v == [voice EXCEPT !.outcomes = Append(@, out)]
       IN  IF out.ok
           THEN AfterTranscription(
                  [v EXCEPT !.transcription = IF out.hasText THEN trim(out.text)
                                              ELSE << >>])
           ELSE IF isRateLimitError(out.error) \/ isNetworkError(out.error)
           THEN VoiceSuspend([v EXCEPT !.pc = "tDelay"])
           ELSE TranscribeNext(v)
  /\ UNCHANGED voiceFrame

\* the setTimeout of the first loop fires: continue
VoiceTimerT ==
  /\ voice.pc = "tDelay"
  /\ TranscribeNext(voice)
  /\ UNCHANGED voiceFrame

\* after the second loop, with rawResponse and the model-used event if a
\* model answered: the assistant turn is added, setView("solutions"),
\* solution-success, return {success: true}
VoiceFinish(v, rawResponse, used) ==
  LET formattedData == formatVoiceResponse(rawResponse, v.transcription)
      events == used \o << Ev(SOLUTION_SUCCESS, formattedData) >>
  IN  /\ conversationHistory' =
           addToConversationHistory(conversationHistory,
             Message("assistant", "Voice response", responseSummary(formattedData)))
      /\ view' = "solutions"
      /\ shView' = "solutions"
      /\ sent' = events
      /\ voice' = [v EXCEPT !.pc = "done", !.success = TRUE, !.ev = @ \o Names(events)]

\* continue in the second loop
AnswerNext(v) ==
  IF v.i + 1 > Len(v.chain) THEN VoiceFinish(v, << >>, << >>)
  ELSE VoiceSuspend([v EXCEPT !.pc = "answer", !.i = @ + 1])

\* the generateContent of the second loop settles
VoiceSettleA ==
  /\ voice.pc = "answer"
  /\ \E out \in AnswerOutcomes :
       IF out.ok
       THEN VoiceFinish(voice, IF out.hasText THEN out.text ELSE << >>,
                        << Ev(MODEL_USED, << voice.chain[voice.i] >>) >>)
       ELSE IF isRateLimitError(out.error) \/ isNetworkError(out.error)
       THEN VoiceSuspend([voice EXCEPT !.pc = "aDelay"])
       ELSE AnswerNext(voice)
  /\ UNCHANGED voiceFrame

\* the setTimeout of the second loop fires: continue
VoiceTimerA ==
  /\ voice.pc = "aDelay"
  /\ AnswerNext(voice)
  /\ UNCHANGED voiceFrame

\* a session in which nothing was done yet, or one problem was solved from a
\* screenshot taken earlier
VoiceInit ==
  /\ apiKey \in BOOLEAN
  /\ userModel \in {"", GEMINI_2_5_PRO, GEMINI_2_0_FLASH}
  /\ lastUsedModel = DEFAULT_MODEL
  /\ gw = NoCall
  /\ gwSignal = FALSE
  /\ extraScreenshotQueue = << >>
  /\ nextImg = 1
  /\ hasDebugged = FALSE
  /\ currentProcessingAbortController = 0
  /\ currentExtraProcessingAbortController = 0
  /\ flows = [f \in 1..MaxFlows |-> NoFlow]
  /\ nflows = 0
  /\ sent = << >>
  /\ voice = NoVoice
  /\ deletion = NoDeletion
  /\ conversationContext = << >>
  /\ ncalls = 0
  /\ \/ /\ view = "queue"
        /\ shView = "queue"
        /\ screenshotQueue = << >>
        /\ files = {}
        /\ problemInfo = NoProblemInfo
        /\ conversationHistory = << >>
     \/ /\ view = "solutions"
        /\ shView = "solutions"
        /\ screenshotQueue = << "earlier" >>
        /\ files = {"earlier"}
        /\ problemInfo = ProblemInfo(<< "earlier" >>)
        /\ conversationHistory =
             << Message("user", "Problem", << "earlier" >>),
                Message("assistant", "Answer", << "earlier" >>) >>

VoiceNext ==
  \/ VoiceBegin
  \/ VoiceLangDone
  \/ VoiceSettleT
  \/ VoiceTimerT
  \/ VoiceSettleA
  \/ VoiceTimerA
  \/ Reset

VoiceSpec == VoiceInit /\ [][VoiceNext]_vars

\* ---------------------------------------------------- claims on voice
\* the k-th transcription attempt gave no transcription: it failed, or it
\* answered with no text or white space only
NoTranscription(out) ==
  \/ ~out.ok
  \/ ~out.hasText
  \/ trim(out.text) = << >>

\* C26: a voice turn returns the could-not-transcribe error only if every
\* model of the fallback chain was attempted and each attempt failed or gave
\* an empty transcription.
C26_CouldNotTranscribeOnlyAfterWholeChain ==
  (voice.pc = "done" /\ voice.error = CouldNotTranscribe) =>
     /\ voice.attempts = voice.chain
     /\ \A k \in DOMAIN voice.outcomes : NoTranscription(voice.outcomes[k])

\* the step is the return of a voice turn with {success: true}
VoiceSucceeds ==
  /\ voice.pc \in {"answer", "aDelay"}
  /\ voice'.pc = "done"
  /\ voice'.success

\* C27: when a voice turn succeeds, problemInfo holds the voice question as
\* its statement, the view is "solutions", problem-extracted and then
\* solution-success have been sent, and the last turn of the conversation
\* history is the assistant summary of the answer.
C27_VoiceTurnSetsProblemInfo ==
  [][ VoiceSucceeds =>
        /\ ~problemInfo'.isNull
        /\ problemInfo'.problem_statement = voiceQuestion(voice.transcription)
        /\ view' = "solutions"
        /\ SOLUTION_SUCCESS \in Range(voice'.ev)
        /\ Precedes(voice'.ev, PROBLEM_EXTRACTED, SOLUTION_SUCCESS)
        /\ Len(conversationHistory') > 0
        /\ conversationHistory'[Len(conversationHistory')].role = "assistant"
        /\ conversationHistory'[Len(conversationHistory')].content.tag = "Voice response" ]_vars

\* ------------------------------------------- ScreenshotHelper.deleteScreenshot
\* calls of deleteScreenshot made over one run, one at a time
MaxDeletes == 1

\* Array.prototype.filter((filePath) => filePath !== path)
filter(queue, path) == SelectSeq(queue, LAMBDA filePath : filePath # path)

\* deleteScreenshot(path) is called with the path of a screenshot taken
\* earlier (0: before this run), and suspends at await fs.promises.unlink(path)
DeleteScreenshot ==
  /\ deletion.pc \in {"idle", "done"}
  /\ deletion.n < MaxDeletes
  /\ \E path \in 0..(nextImg - 1) :
       deletion' = [NoDeletion EXCEPT !.pc = "unlink", !.path = path,
                                      !.n = deletion.n + 1]
  /\ sent' = << >>
  /\ UNCHANGED << queueVars, appVars, ctlVars, flowVars, conversationHistory,
                  storeVars, histVars, voice, lastUsedModel, gwVars >>

\* the unlink settles. Done, the path is filtered out of the queue that
\* ScreenshotHelper.view selects now and {success: true} is returned; failed
\* (the file is gone, or the system refuses), the catch returns
\* {success: false, error}
DeleteSettles ==
  /\ deletion.pc = "unlink"
  /\ \/ /\ deletion.path \in files
        /\ files' = files \ {deletion.path}
        /\ IF shView = "queue"
           THEN /\ screenshotQueue' = filter(screenshotQueue, deletion.path)
                /\ UNCHANGED extraScreenshotQueue
           ELSE /\ extraScreenshotQueue' = filter(extraScreenshotQueue, deletion.path)
                /\ UNCHANGED screenshotQueue
        /\ deletion' = [deletion EXCEPT !.pc = "done", !.success = TRUE]
     \/ /\ \E message \in {<< "ENOENT: no such file or directory" >>,
                           << "EPERM: operation not permitted" >>} :
             /\ (deletion.path \in files) = (message[1] = "EPERM: operation not permitted")
             /\ deletion' = [deletion EXCEPT !.pc = "done", !.error = message]
        /\ UNCHANGED << screenshotQueue, extraScreenshotQueue, files >>
  /\ sent' = << >>
  /\ UNCHANGED << nextImg, appVars, ctlVars, flowVars, conversationHistory,
                  storeVars, histVars, voice, lastUsedModel, gwVars >>

\* calls of processScreenshots made over one run with deletions
MaxQueueFlows == 1

\* the pipeline with deletions
QueueNext ==
  \/ TakeScreenshot
  \/ CaptureSecondary
  \/ nflows < MaxQueueFlows /\ ProcessScreenshots
  \/ Reset
  \/ DeleteScreenshot
  \/ DeleteSettles
  \/ \E f \in 1..MaxFlows : PrepDone(f)
  \/ \E f \in 1..MaxFlows : LangDone(f)
  \/ \E f \in 1..MaxFlows : Lang2Done(f)
  \/ \E f \in 1..MaxFlows : Settle(f)
  \/ \E f \in 1..MaxFlows : Timer(f)

\* a session in which one problem was solved from a screenshot taken before
\* this run (numbered 0)
QueueInit ==
  /\ apiKey = TRUE
  /\ userModel = GEMINI_2_0_FLASH
  /\ lastUsedModel = GEMINI_2_0_FLASH
  /\ gw = NoCall
  /\ gwSignal = FALSE
  /\ view = "solutions"
  /\ shView = "solutions"
  /\ screenshotQueue = << 0 >>
  /\ extraScreenshotQueue = << >>
  /\ files = {0}
  /\ nextImg = 1
  /\ problemInfo = ProblemInfo(<< 0 >>)
  /\ hasDebugged = FALSE
  /\ currentProcessingAbortController = 0
  /\ currentExtraProcessingAbortController = 0
  /\ flows = [f \in 1..MaxFlows |-> NoFlow]
  /\ nflows = 0
  /\ sent = << >>
  /\ voice = NoVoice
  /\ deletion = NoDeletion
  /\ conversationHistory = SolvedLog(1)
  /\ conversationContext = << >>
  /\ ncalls = 0

QueueSpec == QueueInit /\ [][QueueNext]_vars

\* the step is the return of deleteScreenshot
DeleteReturns ==
  /\ deletion.pc = "unlink"
  /\ deletion'.pc = "done"

\* C28: deleteScreenshot always returns a result; when the result is a
\* success the path is in neither queue any more and its file is deleted;
\* when it is a failure both queues are as they were.
C28_DeleteRemovesEntryOrChangesNothing ==
  [][ DeleteReturns =>
        IF deletion'.success
        THEN /\ deletion'.error = << >>
             /\ deletion.path \notin Range(screenshotQueue')
             /\ deletion.path \notin Range(extraScreenshotQueue')
             /\ deletion.path \notin files'
        ELSE /\ deletion'.error # << >>
             /\ screenshotQueue' = screenshotQueue
             /\ extraScreenshotQueue' = extraScreenshotQueue ]_vars

GwLiveInit ==
  /\ GwInit
  /\ userModel \in {GEMINI_2_5_FLASH, GEMINI_2_0_FLASH}

GwLiveSpec ==
  GwLiveInit /\ [][GwNext]_vars /\ WF_vars(GwExecute) /\ WF_vars(GwTimer)

\* C30: every attempt ends, whether the provider answers it or not, so that
\* the call ends.
C30_AttemptEndsWithoutProvider ==
  Awaiting(gw) ~> Ended(gw)

\* ------------------------------------------- the voice loops and the policy
\* the k-th attempt of the transcription loop is the first of its model
FirstVoiceAttempt(k) == k = 1 \/ voice.attempts[k - 1] # voice.attempts[k]

\* C31: in the transcription loop of a voice turn a model whose first attempt
\* fails with a network error is attempted once more before any other model,
\* and a model that fails with a rate-limit error is attempted once only.
C31_VoiceFollowsGatewayPolicy ==
  \A k \in DOMAIN voice.outcomes :
    LET out == voice.outcomes[k]
    IN  /\ (/\ ~out.ok /\ isNetworkError(out.error) /\ ~isRateLimitError(out.error)
            /\ FirstVoiceAttempt(k)
            /\ voice.pc \notin {"tDelay"})
             => /\ k + 1 \in DOMAIN voice.attempts
                /\ voice.attempts[k + 1] = voice.attempts[k]
        /\ (~out.ok /\ isRateLimitError(out.error))
             => /\ FirstVoiceAttempt(k)
                /\ k + 1 \in DOMAIN voice.attempts
                     => voice.attempts[k + 1] # voice.attempts[k]

\* ------------------------------------------------------- the two views
\* no call of processScreenshots, processAudioData or deleteScreenshot is
\* suspended
AtRest ==
  /\ \A f \in 1..MaxFlows : ~InFlight(flows[f])
  /\ voice.pc \in {"idle", "done"}
  /\ deletion.pc \in {"idle", "done"}

\* C32: whenever nothing is executing, the view of main and the view of
\* ScreenshotHelper are the same.
C32_ViewsAgreeAtRest ==
  AtRest => view = shView

\* ---------------------------------------------- after a successful delete
\* C33: once deleteScreenshot(path) has returned {success: true}, path is in
\* neither queue.
C33_DeletedPathInNoQueue ==
  (deletion.pc = "done" /\ deletion.success) =>
     deletion.path \notin (Range(screenshotQueue) \cup Range(extraScreenshotQueue))

\* --------------------------------------------- reset and the flows in flight
\* the field that holds the controller of a flow of this kind
SlotOf(kind) ==
  IF kind = "solve" THEN currentProcessingAbortController
  ELSE currentExtraProcessingAbortController

\* C34: Cmd+R aborts the controller of every flow in flight, and while a flow
\* that was not aborted awaits the provider the field of its kind holds the
\* controller of that flow.
C34_ResetAbortsEveryFlowInFlight ==
  [][ /\ IsReset =>
           \A f \in 1..MaxFlows : InFlight(flows[f]) => flows'[f].aborted
      /\ \A f \in 1..MaxFlows :
           (InFlight(flows[f]) /\ Awaiting(flows[f].call) /\ ~flows[f].aborted)
             => SlotOf(flows[f].kind) = f ]_vars

\* ------------------------------------------------- one solution-success
\* C35: a solve flow that succeeds sends solution-success exactly once, after
\* problem-extracted and with the secondary queue cleared.
C35_OneSolutionSuccess ==
  [][ \A f \in 1..MaxFlows :
        SolveSucceeds(f) =>
          /\ Count(sent', SOLUTION_SUCCESS) = 1
          /\ Precedes(flows'[f].ev, PROBLEM_EXTRACTED, SOLUTION_SUCCESS)
          /\ extraScreenshotQueue' = << >> ]_vars

\* ------------------------------------------ the log after a failed solution
\* flow f, a solve flow, returns in this step from a solution call that failed
GenerateFails(f) ==
  /\ flows[f].kind = "solve"
  /\ flows[f].stage = "Generate"
  /\ InFlight(flows[f])
  /\ flows'[f].pc = "done"
  /\ ~HasSent(sent', {SOLUTION_SUCCESS})

\* C36: a solve flow whose solution call fails leaves none of its turns in
\* the conversation history: the history does not end with the user turn of
\* the problem of that flow.
C36_FailedSolveLeavesNoTurn ==
  [][ \A f \in 1..MaxFlows :
        GenerateFails(f) =>
          \/ conversationHistory' = << >>
          \/ conversationHistory'[Len(conversationHistory')]
               # Message("user", "Problem", flows[f].info.problem_statement) ]_vars

\* ------------------------------------------- no attempt after the signal
\* C37: once the signal is aborted, callAIWithFallback issues no further
\* generateContent, the retry that follows the delay of a network error
\* included.
C37_NoAttemptOnceAborted ==
  [][ gwSignal => gw'.attempts = gw.attempts ]_vars

\* --------------------------------------- a voice turn that gets no answer
VOICE_ERROR == "voice-error"

\* the second loop of the voice turn ends in this step with every model of
\* the chain having failed
AnswerChainFails ==
  /\ voice.pc \in {"answer", "aDelay"}
  /\ voice'.pc = "done"
  /\ ~HasSent(sent', {MODEL_USED})

\* C38: a voice turn whose answer call fails on every model ends as a
\* failure: an error event is sent, solution-success is not, the view does
\* not become "solutions" and no assistant turn is added.
C38_VoiceAnswerFailureIsFailure ==
  [][ AnswerChainFails =>
        /\ ~voice'.success
        /\ HasSent(sent', {VOICE_ERROR})
        /\ ~HasSent(sent', {SOLUTION_SUCCESS})
        /\ view' = view
        /\ conversationHistory' = conversationHistory ]_vars

\* ------------------------------------------------ a voice turn that fails
\* processAudioData returns {success: false} in this step
VoiceFails ==
  /\ voice'.pc = "done"
  /\ voice.pc # "done" \/ voice'.turns # voice.turns
  /\ ~voice'.success

\* C39: a voice turn that fails for want of an API key leaves the views,
\* problemInfo, both queues and the conversation history as they were when it
\* was called, and one that fails for want of a transcription leaves them as
\* they are when it returns.
C39_FailedVoiceTurnChangesNothing ==
  [][ VoiceFails =>
        UNCHANGED << view, shView, problemInfo, screenshotQueue,
                     extraScreenshotQueue, conversationHistory >> ]_vars

\* --------------------------------- an extraction that outlives the reset
\* C40: a solve flow whose controller was aborted while its extraction call
\* awaited the provider does not write problemInfo and does not send
\* problem-extracted when the provider answers.
C40_AbortedExtractionWritesNothing ==
  [][ \A f \in 1..MaxFlows :
        /\ flows[f].kind = "solve"
        /\ flows[f].pc = "gw"
        /\ flows[f].stage = "Extract"
        /\ flows[f].aborted
        /\ FlowActs(f)
        => /\ problemInfo' = problemInfo
           /\ ~HasSent(sent', {PROBLEM_EXTRACTED}) ]_vars

====
